---- MODULE Spec2Model ----
(***************************************************************************)
(* Interaction subsystem of gh-notice-board: like / dislike / bookmark    *)
(* toggles (interactions/views.py), the content `like` actions            *)
(* (news/views.py, events/views.py) with their denormalized likes_count,  *)
(* and threaded comments (interactions/models.py, Comment.save).          *)
(***************************************************************************)
EXTENDS Integers, FiniteSets, Sequences, TLC

\* ---------------------------------------------------------------- bounds
\* Content `like` requests that would create a row are not started once the
\* counter has reached MaxCount (the counter can otherwise grow for ever).
MaxCount == 2
\* The three interaction tables hold at most MaxRows rows together.
MaxRows == 2
\* Comment rows ever created
MaxComments == 2
\* The clock stops at MaxTime
MaxTime == 1

\* ---------------------------------------------------------------- inputs
Users == {"u1", "u2"}
\* request.data.get(...) of a key that is absent
NoValue == "none"
\* ContentType rows that exist (the discriminators of NewsArticle and Event)
ContentTypes == {"news", "event"}
\* The content entities that exist: one NewsArticle and one Event
Entity == {<<"news", "1">>, <<"event", "1">>}
\* What a client may send as content_type / object_id
CtInputs == {NoValue, "news", "event", "bogus"}
OidInputs == {NoValue, "1", "2"}

Max(a, b) == IF a >= b THEN a ELSE b

Key(u, ct, oid) == <<u, ct, oid>>

\* ---------------------------------------------------------------- state
VARIABLES
    likes,        \* Like rows: <<user, content_type, object_id>>
    dislikes,     \* Dislike rows
    bookmarks,    \* Bookmark rows
    likes_count,  \* NewsArticle.likes_count / Event.likes_count per entity
    last,         \* the request completed last, with what it saw and answered
    req,          \* content `like` requests in flight, one per worker
    epoch,        \* the overlapping requests since no request was in flight
    comments,     \* Comment rows by primary key
    stored,       \* primary keys of the Comment rows in the table
    nextId,       \* the next primary key uuid4 hands out
    now,          \* timezone.now()
    creq          \* Comment saves in flight, one per worker

varsToggle == <<likes, dislikes, bookmarks, likes_count, last>>
varsRace == <<req, epoch>>
varsComment == <<comments, stored, nextId, now, creq>>

VARIABLES
    reviews,      \* Review rows
    rlast         \* the review request completed last and its answer

VARIABLES
    interests,    \* UserInterest rows
    tlast,        \* the track / feed request completed last and its answer
    articles      \* the rows of the model the feed helpers query

VARIABLES
    push_subs,    \* PushSubscription rows
    nextPush,     \* the next PushSubscription primary key
    user_subs,    \* UserSubscription rows
    plast,        \* the subscription request completed last and its answer
    preq,         \* push subscribe requests between validation and write
    ncall         \* the notification call in progress

varsReview == <<reviews, rlast>>
varsTags == <<interests, tlast, articles>>
varsPush == <<push_subs, nextPush, user_subs, plast, preq, ncall>>
varsRest == <<varsReview, varsTags, varsPush>>
vars == <<varsToggle, varsRace, varsComment, varsRest>>

NoRequest ==
    [ep |-> "none", user |-> NoValue, ct |-> NoValue, oid |-> NoValue,
     status |-> 0, applied |-> FALSE, hadLike |-> FALSE, hadDislike |-> FALSE,
     before |-> 0]

Rows == Cardinality(likes) + Cardinality(dislikes) + Cardinality(bookmarks)

\* likes_count of the target before a request, 0 for a target that is no entity
CountOf(ct, oid) == IF <<ct, oid>> \in Entity THEN likes_count[<<ct, oid>>] ELSE 0

Done(ep, u, ct, oid, status, applied) ==
    [ep |-> ep, user |-> u, ct |-> ct, oid |-> oid, status |-> status,
     applied |-> applied,
     hadLike |-> Key(u, ct, oid) \in likes,
     hadDislike |-> Key(u, ct, oid) \in dislikes,
     before |-> CountOf(ct, oid)]

InitToggle ==
    /\ likes = {}
    /\ dislikes = {}
    /\ bookmarks = {}
    /\ likes_count = [e \in Entity |-> 0]
    /\ last = NoRequest

\* ---------------------------------------------------------------- storage
\* Model.objects.get_or_create on a table with unique_together
\* (user, content_type, object_id): the row is there afterwards, and `created`
\* tells whether this call inserted it.
GetOrCreate(rows, k) == [created |-> k \notin rows, rows |-> rows \cup {k}]

\* article.likes_count = F('likes_count') + delta; article.save(update_fields=
\* ['likes_count']): one UPDATE evaluated by the database on the stored value.
\* likes_count is a PositiveIntegerField: the database refuses a negative
\* value and the statement raises (ok = FALSE), the stored value staying.
SaveLikesCount(cnt, e, delta) ==
    IF cnt[e] + delta < 0
    THEN [ok |-> FALSE, cnt |-> cnt]
    ELSE [ok |-> TRUE, cnt |-> [cnt EXCEPT ![e] = @ + delta]]

\* ---------------------------------------------------------------- handlers
\* NewsArticleViewSet.like / EventViewSet.like: the same code on the two
\* entity kinds.  The Like row is deleted before the counter is written, and
\* each statement is committed on its own, so a refused counter write leaves
\* the row deleted and the request ends in a server error.
ContentLike(u, e) ==
    /\ LET k == Key(u, e[1], e[2])
           goc == GetOrCreate(likes, k)
       IN  IF ~goc.created
           THEN LET w == SaveLikesCount(likes_count, e, -1)
                IN  /\ likes' = likes \ {k}
                    /\ likes_count' = w.cnt
                    /\ last' = Done("content_like", u, e[1], e[2],
                                    IF w.ok THEN 200 ELSE 500, FALSE)
                    /\ UNCHANGED <<dislikes, bookmarks>>
           ELSE LET w == SaveLikesCount(likes_count, e, 1)
                IN  /\ likes_count[e] < MaxCount
                    /\ Rows < MaxRows
                    /\ likes' = goc.rows
                    /\ likes_count' = w.cnt
                    /\ last' = Done("content_like", u, e[1], e[2], 200, TRUE)
                    /\ UNCHANGED <<dislikes, bookmarks>>
    /\ UNCHANGED <<varsRace, varsComment, varsRest>>

\* The check shared by the three generic toggles: both fields present and the
\* content_type id names a ContentType row.  The object is never looked up.
Rejected(ct, oid) == ct = NoValue \/ oid = NoValue \/ ct \notin ContentTypes

\* LikeToggleView.post
LikeToggle(u, ct, oid) ==
    /\ IF Rejected(ct, oid)
       THEN /\ last' = Done("like", u, ct, oid, 400, FALSE)
            /\ UNCHANGED <<likes, dislikes, bookmarks, likes_count>>
       ELSE LET k == Key(u, ct, oid)
                goc == GetOrCreate(likes, k)
            IN  IF ~goc.created
                THEN /\ likes' = likes \ {k}
                     /\ last' = Done("like", u, ct, oid, 200, FALSE)
                     /\ UNCHANGED <<dislikes, bookmarks, likes_count>>
                ELSE /\ Rows < MaxRows \/ k \in dislikes
                     /\ likes' = goc.rows
                     /\ dislikes' = dislikes \ {k}
                     /\ last' = Done("like", u, ct, oid, 201, TRUE)
                     /\ UNCHANGED <<bookmarks, likes_count>>
    /\ UNCHANGED <<varsRace, varsComment, varsRest>>

\* DislikeToggleView.post
DislikeToggle(u, ct, oid) ==
    /\ IF Rejected(ct, oid)
       THEN /\ last' = Done("dislike", u, ct, oid, 400, FALSE)
            /\ UNCHANGED <<likes, dislikes, bookmarks, likes_count>>
       ELSE LET k == Key(u, ct, oid)
                goc == GetOrCreate(dislikes, k)
            IN  IF ~goc.created
                THEN /\ dislikes' = dislikes \ {k}
                     /\ last' = Done("dislike", u, ct, oid, 200, FALSE)
                     /\ UNCHANGED <<likes, bookmarks, likes_count>>
                ELSE /\ Rows < MaxRows \/ k \in likes
                     /\ dislikes' = goc.rows
                     /\ likes' = likes \ {k}
                     /\ last' = Done("dislike", u, ct, oid, 201, TRUE)
                     /\ UNCHANGED <<bookmarks, likes_count>>
    /\ UNCHANGED <<varsRace, varsComment, varsRest>>

\* BookmarkToggleView.post
BookmarkToggle(u, ct, oid) ==
    /\ IF Rejected(ct, oid)
       THEN /\ last' = Done("bookmark", u, ct, oid, 400, FALSE)
            /\ UNCHANGED <<likes, dislikes, bookmarks, likes_count>>
       ELSE LET k == Key(u, ct, oid)
                goc == GetOrCreate(bookmarks, k)
            IN  IF ~goc.created
                THEN /\ bookmarks' = bookmarks \ {k}
                     /\ last' = Done("bookmark", u, ct, oid, 200, FALSE)
                     /\ UNCHANGED <<likes, dislikes, likes_count>>
                ELSE /\ Rows < MaxRows
                     /\ bookmarks' = goc.rows
                     /\ last' = Done("bookmark", u, ct, oid, 201, TRUE)
                     /\ UNCHANGED <<likes, dislikes, likes_count>>
    /\ UNCHANGED <<varsRace, varsComment, varsRest>>

\* ------------------------------------------------- concurrent content likes
\* NewsArticleViewSet.like / EventViewSet.like statement by statement, so that
\* the requests of several workers interleave.  Each database statement is a
\* step of its own (no transaction spans the view).
Workers == {"w1", "w2"}

Idle == [pc |-> "idle", user |-> NoValue, ent |-> <<NoValue, NoValue>>,
         created |-> FALSE, gone |-> FALSE, seen |-> 0, status |-> 0]

NoEpoch == [ent |-> <<NoValue, NoValue>>, base |-> 0, n |-> 0, liked |-> FALSE]

InFlight(w) == req[w].pc \notin {"idle", "done"}

InitRace ==
    /\ req = [w \in Workers |-> Idle]
    /\ epoch = NoEpoch

\* article = self.get_object(): the entity is loaded, likes_count included
LikeGetObject(w, u, e) ==
    /\ ~InFlight(w)
    /\ likes_count[e] < MaxCount
    /\ req' = [req EXCEPT ![w] = [Idle EXCEPT !.pc = "get_or_create", !.user = u,
                                              !.ent = e, !.seen = likes_count[e]]]
    /\ epoch' = IF \E o \in Workers : InFlight(o)
                THEN [epoch EXCEPT !.n = IF @ < 3 THEN @ + 1 ELSE @]
                ELSE [ent |-> e, base |-> likes_count[e], n |-> 1,
                      liked |-> Key(u, e[1], e[2]) \in likes]
    /\ UNCHANGED <<varsToggle, varsComment, varsRest>>

\* like, created = Like.objects.get_or_create(user, content_type, object_id)
LikeGetOrCreate(w) ==
    LET r == req[w]
        k == Key(r.user, r.ent[1], r.ent[2])
        goc == GetOrCreate(likes, k)
    IN  /\ r.pc = "get_or_create"
        /\ likes' = goc.rows
        /\ req' = [req EXCEPT ![w].created = goc.created,
                              ![w].pc = IF goc.created THEN "save" ELSE "delete"]
        /\ UNCHANGED <<dislikes, bookmarks, likes_count, last, epoch, varsComment, varsRest>>

\* like.delete(): DELETE of the row this request fetched, by primary key.  It
\* deletes nothing when another request has deleted that row meanwhile (gone),
\* also when a new row for the same key has been inserted since.
LikeDelete(w) ==
    LET r == req[w]
        k == Key(r.user, r.ent[1], r.ent[2])
        holds(o) == /\ o # w /\ req[o].pc = "delete"
                    /\ req[o].user = r.user /\ req[o].ent = r.ent
    IN  /\ r.pc = "delete"
        /\ likes' = IF r.gone THEN likes ELSE likes \ {k}
        /\ req' = [o \in Workers |->
                      IF o = w THEN [r EXCEPT !.pc = "save"]
                      ELSE IF holds(o) /\ ~r.gone THEN [req[o] EXCEPT !.gone = TRUE]
                      ELSE req[o]]
        /\ UNCHANGED <<dislikes, bookmarks, likes_count, last, epoch, varsComment, varsRest>>

\* article.likes_count = F('likes_count') +/- 1; article.save(update_fields=
\* ['likes_count']); return Response({'liked': created, ...})
\* The request is over: what it answered is kept, the loaded objects are not
Answered(r, ok) ==
    [r EXCEPT !.pc = "done", !.status = IF ok THEN 200 ELSE 500,
              !.seen = 0, !.gone = FALSE]

\* The counter written from the instance loaded by get_object instead of by
\* the database: article.likes_count = article.likes_count +/- 1
LikeSaveFromInstance(w) ==
    LET r == req[w]
        v == r.seen + (IF r.created THEN 1 ELSE -1)
    IN  /\ r.pc = "save"
        /\ likes_count' = IF v < 0 THEN likes_count
                          ELSE [likes_count EXCEPT ![r.ent] = v]
        /\ req' = [req EXCEPT ![w] = Answered(r, v >= 0)]
        /\ UNCHANGED <<likes, dislikes, bookmarks, last, epoch, varsComment, varsRest>>

LikeSave(w) ==
    LET r == req[w]
        s == SaveLikesCount(likes_count, r.ent, IF r.created THEN 1 ELSE -1)
    IN  /\ r.pc = "save"
        /\ likes_count' = s.cnt
        /\ req' = [req EXCEPT ![w] = Answered(r, s.ok)]
        /\ UNCHANGED <<likes, dislikes, bookmarks, last, epoch, varsComment, varsRest>>


\* ---------------------------------------------------------------- comments
\* Comment (interactions/models.py): the threading fields and the edit marks.
\* No view or serializer of the repository creates or edits comments, so the
\* operations are the model's own: construct and save, load and save.
Targets == {<<"news", "1">>, <<"event", "1">>}
Contents == {"a", "b"}
CIds == 1..MaxComments
NoParent == 0
NoTime == -1

\* A Comment as constructed: is_edited=False, edited_at=None, reply_count=0
NewComment(t, c, p) ==
    [target |-> t, content |-> c, parent |-> p,
     is_edited |-> FALSE, edited_at |-> NoTime, reply_count |-> 0]

Blank == NewComment(<<NoValue, NoValue>>, NoValue, NoParent)

CIdle == [pc |-> "idle", pk |-> 0, inst |-> Blank, cur |-> 0, n |-> 0]

CInFlight(w) == creq[w].pc # "idle"

InitComment ==
    /\ comments = [c \in CIds |-> Blank]
    /\ stored = {}
    /\ nextId = 1
    /\ now = 0
    /\ creq = [w \in Workers |-> CIdle]

\* The fields whose related object instance._state.fields_cache keeps
RelationFields == {"user", "content_type", "parent", "content_object"}

\* self._state.fields_cache.get(name): the cache holds related objects only,
\* so the lookup of a plain column such as 'content' finds no entry (None)
FieldsCacheGet(inst, name) ==
    IF name = "parent" THEN inst.parent
    ELSE IF name \in RelationFields THEN inst.target[1]
    ELSE NoValue

\* The content compared with the instance's own attribute: never different
MarkEditedOwnContent(inst, pk, t) ==
    IF pk # 0 /\ inst.content # inst.content
    THEN [inst EXCEPT !.is_edited = TRUE, !.edited_at = t]
    ELSE inst

\* Comment.save, before super().save(): pk is the uuid4 given at construction,
\* so `self.pk` is true for a new comment too
MarkEdited(inst, pk, t) ==
    IF pk # 0 /\ inst.content # FieldsCacheGet(inst, "content")
    THEN [inst EXCEPT !.is_edited = TRUE, !.edited_at = t]
    ELSE inst

\* self.parent.replies.count()
Replies(p) == {c \in stored : comments[c].parent = p}

\* Comment(...) constructed for a target, optionally as a reply to a stored
\* comment; nothing checks the parent's target
CommentNew(w, t, c, p) ==
    /\ ~CInFlight(w)
    /\ nextId <= MaxComments
    /\ p = NoParent \/ p \in stored
    /\ creq' = [creq EXCEPT ![w] = [CIdle EXCEPT !.pc = "save", !.pk = nextId,
                                                !.inst = NewComment(t, c, p)]]
    /\ nextId' = nextId + 1
    /\ UNCHANGED <<comments, stored, now, varsToggle, varsRace, varsRest>>

\* comment = Comment.objects.get(pk=...); comment.content = c (c may be the
\* stored content: a re-save)
CommentLoad(w, k, c) ==
    /\ ~CInFlight(w)
    /\ k \in stored
    /\ creq' = [creq EXCEPT ![w] = [CIdle EXCEPT !.pc = "save", !.pk = k,
                                   !.inst = [comments[k] EXCEPT !.content = c]]]
    /\ UNCHANGED <<comments, stored, nextId, now, varsToggle, varsRace, varsRest>>

\* Comment.save: the edit marks, then super().save() writes every column of
\* the instance (INSERT for a new comment, UPDATE for a loaded one)
CommentSaveRow(w) ==
    LET r == creq[w]
        inst == MarkEdited(r.inst, r.pk, now)
    IN  /\ r.pc = "save"
        /\ comments' = [comments EXCEPT ![r.pk] = inst]
        /\ stored' = stored \cup {r.pk}
        /\ creq' = [creq EXCEPT ![w] = IF inst.parent # NoParent
                                       THEN [r EXCEPT !.inst = inst, !.cur = r.pk,
                                                      !.pc = "count"]
                                       ELSE CIdle]
        /\ UNCHANGED <<nextId, now, varsToggle, varsRace, varsRest>>

\* if self.parent: self.parent.reply_count = self.parent.replies.count()
CommentCountReplies(w) ==
    LET r == creq[w]
        p == comments[r.cur].parent
    IN  /\ r.pc = "count"
        /\ creq' = [creq EXCEPT ![w].n = Cardinality(Replies(p)), ![w].pc = "write"]
        /\ UNCHANGED <<comments, stored, nextId, now, varsToggle, varsRace, varsRest>>

\* self.parent.save(update_fields=['reply_count']): Comment.save on the parent
\* writes that one column, then goes on with the parent's own parent
CommentWriteCount(w) ==
    LET r == creq[w]
        p == comments[r.cur].parent
    IN  /\ r.pc = "write"
        /\ comments' = [comments EXCEPT ![p].reply_count = r.n]
        /\ creq' = [creq EXCEPT ![w] = IF comments[p].parent # NoParent
                                       THEN [r EXCEPT !.cur = p, !.pc = "count"]
                                       ELSE CIdle]
        /\ UNCHANGED <<stored, nextId, now, varsToggle, varsRace, varsRest>>

\* The rows the deletion of the comments S takes with it: parent is
\* on_delete=CASCADE, so their replies, and the replies of those
RECURSIVE Cascade(_, _)
Cascade(S, n) ==
    IF n = 0 THEN S
    ELSE Cascade(S \cup {c \in stored : comments[c].parent \in S}, n - 1)

\* comment.delete(): Model.delete, which Comment does not override; no
\* signal receiver of the repository listens to it
CommentDelete(k) ==
    /\ k \in stored
    /\ stored' = stored \ Cascade({k}, Cardinality(stored))
    /\ UNCHANGED <<comments, nextId, now, creq, varsToggle, varsRace, varsRest>>

Tick ==
    /\ now < MaxTime
    /\ now' = now + 1
    /\ UNCHANGED <<comments, stored, nextId, creq, varsToggle, varsRace, varsRest>>

\* ---------------------------------------------------------------- reviews
\* interactions/views.py: ReviewListCreateView, ReviewDetailView and
\* InteractionStatsView; interactions/models.py: Review.

\* Review rows in the table at most
MaxReviews == 3

Reviewers == Users \cup {"u3"}
\* request.user of a request without credentials
Anonymous == "anonymous"
\* rating / title / comment a client may send: two valid bodies, a rating
\* below and above the range, a blank comment
ReviewInputs ==
    {[rating |-> 1, title |-> "", comment |-> "c"],
     [rating |-> 2, title |-> "t", comment |-> "d"],
     [rating |-> 0, title |-> "t", comment |-> "c"],
     [rating |-> 6, title |-> "t", comment |-> "c"],
     [rating |-> 1, title |-> "t", comment |-> ""]}

NoReview ==
    [op |-> "none", user |-> NoValue, ct |-> NoValue, oid |-> NoValue,
     status |-> 0]

ReviewDone(op, u, ct, oid, status) ==
    [op |-> op, user |-> u, ct |-> ct, oid |-> oid, status |-> status]

InitReview ==
    /\ reviews = {}
    /\ rlast = NoReview

\* The rows of one (user, content_type, object_id)
ReviewsOf(u, ct, oid) ==
    {r \in reviews : r.user = u /\ r.ct = ct /\ r.oid = oid}

\* ReviewSerializer.is_valid: content_type is a ContentType row, object_id
\* and comment are present and not blank, rating is within 1..5; title may
\* be blank
ReviewValid(ct, oid, rating, comment) ==
    /\ ct \in ContentTypes
    /\ oid # NoValue
    /\ rating >= 1
    /\ rating <= 5
    /\ comment # ""

\* The table without the constraint: any row may be written
UniqueTogetherAbsent(rows, u, ct, oid) == TRUE

\* unique_together = ['user', 'content_type', 'object_id']: may a row of
\* this triple be written next to `rows`
UniqueTogether(rows, u, ct, oid) ==
    \A r \in rows : ~(r.user = u /\ r.ct = ct /\ r.oid = oid)

\* POST /interactions/reviews/: `user` is read-only in the serializer, so no
\* uniqueness validator covers the triple; the table's constraint refuses
\* the INSERT (IntegrityError, answered as a server error).
ReviewCreate(u, ct, oid, rating, title, comment) ==
    /\ IF ~ReviewValid(ct, oid, rating, comment)
       THEN /\ rlast' = ReviewDone("create", u, ct, oid, 400)
            /\ UNCHANGED reviews
       ELSE IF ~UniqueTogether(reviews, u, ct, oid)
       THEN /\ rlast' = ReviewDone("create", u, ct, oid, 500)
            /\ UNCHANGED reviews
       ELSE /\ Cardinality(reviews) < MaxReviews
            /\ reviews' = reviews \cup
                 {[user |-> u, ct |-> ct, oid |-> oid, rating |-> rating,
                   title |-> title, comment |-> comment, is_approved |-> TRUE]}
            /\ rlast' = ReviewDone("create", u, ct, oid, 201)
    /\ UNCHANGED <<varsToggle, varsRace, varsComment, varsTags, varsPush>>

\* PUT /interactions/reviews/<pk>/ on a row of the requester (get_queryset
\* filters on user): content_type, object_id, rating, title and comment
\* are writable, user and is_approved are not.
ReviewUpdate(r, ct, oid, rating, title, comment) ==
    /\ r \in reviews
    /\ IF ~ReviewValid(ct, oid, rating, comment)
       THEN /\ rlast' = ReviewDone("update", r.user, NoValue, NoValue, 400)
            /\ UNCHANGED reviews
       ELSE IF ~UniqueTogether(reviews \ {r}, r.user, ct, oid)
       THEN /\ rlast' = ReviewDone("update", r.user, NoValue, NoValue, 500)
            /\ UNCHANGED reviews
       ELSE /\ reviews' = (reviews \ {r}) \cup
                 {[r EXCEPT !.ct = ct, !.oid = oid, !.rating = rating,
                            !.title = title, !.comment = comment]}
            /\ rlast' = ReviewDone("update", r.user, NoValue, NoValue, 200)
    /\ UNCHANGED <<varsToggle, varsRace, varsComment, varsTags, varsPush>>

\* DELETE /interactions/reviews/<pk>/ on a row of the requester
ReviewDestroy(r) ==
    /\ r \in reviews
    /\ reviews' = reviews \ {r}
    /\ rlast' = ReviewDone("destroy", r.user, NoValue, NoValue, 204)
    /\ UNCHANGED <<varsToggle, varsRace, varsComment, varsTags, varsPush>>

\* is_approved is written by moderation only (no endpoint takes it)
ReviewModerate(r, approved) ==
    /\ r \in reviews
    /\ r.is_approved # approved
    /\ reviews' = (reviews \ {r}) \cup {[r EXCEPT !.is_approved = approved]}
    /\ rlast' = ReviewDone("moderate", NoValue, NoValue, NoValue, 0)
    /\ UNCHANGED <<varsToggle, varsRace, varsComment, varsTags, varsPush>>

RECURSIVE SumRating(_)
\* SUM(rating) over a set of rows
SumRating(S) ==
    IF S = {} THEN 0
    ELSE LET r == CHOOSE x \in S : TRUE IN r.rating + SumRating(S \ {r})

\* Avg('rating') as hundredths: SUM / COUNT, None (here -1) over no row
AvgRating(S) ==
    IF S = {} THEN [none |-> TRUE, sum |-> 0, n |-> 1]
    ELSE [none |-> FALSE, sum |-> SumRating(S), n |-> Cardinality(S)]

\* round(x, 2) of x = sum / n, as hundredths: to the nearest hundredth, a
\* tie to the even one
Round2(sum, n) ==
    LET q == (100 * sum) \div n
        r == (100 * sum) % n
    IN IF 2 * r < n THEN q
       ELSE IF 2 * r > n THEN q + 1
       ELSE IF q % 2 = 0 THEN q ELSE q + 1

\* The filter without is_approved=True: every review of the target
ReviewsOfTarget(ct, oid) ==
    {r \in reviews : r.ct = ct /\ r.oid = oid}

\* Review.objects.filter(content_type, object_id, is_approved=True)
ApprovedReviews(ct, oid) ==
    {r \in reviews : r.ct = ct /\ r.oid = oid /\ r.is_approved}

\* GET /interactions/stats/ as user u (or Anonymous); average_rating in
\* hundredths
InteractionStats(u, ct, oid) ==
    IF ct = NoValue \/ oid = NoValue \/ ct \notin ContentTypes
    THEN [status |-> 400]
    ELSE LET found == ApprovedReviews(ct, oid)
             avg == AvgRating(found)
             auth == u # Anonymous
         IN [status |-> 200,
             likes_count |-> Cardinality({k \in likes : k[2] = ct /\ k[3] = oid}),
             dislikes_count |-> Cardinality({k \in dislikes : k[2] = ct /\ k[3] = oid}),
             reviews_count |-> Cardinality(found),
             average_rating |->
                 IF avg.none \/ avg.sum = 0 THEN 0 ELSE Round2(avg.sum, avg.n),
             user_liked |-> auth /\ Key(u, ct, oid) \in likes,
             user_disliked |-> auth /\ Key(u, ct, oid) \in dislikes,
             user_bookmarked |-> auth /\ Key(u, ct, oid) \in bookmarks,
             user_review |-> IF auth THEN ReviewsOf(u, ct, oid) ELSE {}]

\* ---------------------------------------------------------------- interests and feed
\* tags/views.py: TrackInteractionView, RecommendedFeedView;
\* tags/models.py: UserInterest.

\* Category / Tag rows that exist
CategoryIds == {"1"}
TagIds == {"1"}
\* request.data 'type', 'category_id' / 'tag_id', 'time_spent'
TypeInputs == {NoValue, "view", "like", "share", "bogus"}
IdInputs == {NoValue, "1"}
TimeInputs == {0, 120}
\* score is kept in thirtieths: time_spent / 60 * 2 = time_spent / 30
ScoreUnit == 30
\* The names news/models.py defines
NewsModels == {"NewsArticle", "NewsImage", "NewsRevision"}

NoTrack ==
    [op |-> "none", user |-> NoValue, type |-> NoValue, category_id |-> NoValue,
     tag_id |-> NoValue, time_spent |-> 0, status |-> 0, helper |-> NoValue,
     algorithm |-> NoValue, hadInterest |-> FALSE, page_size |-> 0, page |-> 0,
     feed |-> <<>>, total |-> 0]

InitTags ==
    /\ interests = {}
    /\ tlast = NoTrack
    /\ articles = {}

\* UserInterest(user=..., category_id=...) / (user=..., tag_id=...) with the
\* field defaults
NewInterest(u, kind, id) ==
    [user |-> u, kind |-> kind, id |-> id, view_count |-> 0, like_count |-> 0,
     share_count |-> 0, time_spent |-> 0, score |-> 0]

InterestRows(rows, u, kind, id) ==
    {r \in rows : r.user = u /\ r.kind = kind /\ r.id = id}

\* UserInterest.objects.get_or_create(user=u, <kind>_id=id)
InterestGetOrCreate(rows, u, kind, id) ==
    IF InterestRows(rows, u, kind, id) # {}
    THEN [inst |-> CHOOSE r \in InterestRows(rows, u, kind, id) : TRUE, rows |-> rows]
    ELSE [inst |-> NewInterest(u, kind, id),
          rows |-> rows \cup {NewInterest(u, kind, id)}]

\* The increments on the instance in memory
Bump(inst, type, t) ==
    LET a == IF type = "view" THEN [inst EXCEPT !.view_count = @ + 1]
             ELSE IF type = "like" THEN [inst EXCEPT !.like_count = @ + 1]
             ELSE IF type = "share" THEN [inst EXCEPT !.share_count = @ + 1]
             ELSE inst
    IN IF t # 0 THEN [a EXCEPT !.time_spent = @ + t] ELSE a

\* The weighted sum of calculate_score, in thirtieths
Score(inst) ==
    (inst.view_count * 1) * ScoreUnit + (inst.like_count * 5) * ScoreUnit
        + (inst.share_count * 10) * ScoreUnit + inst.time_spent

\* UserInterest.calculate_score on instance inst whose row is `row`:
\* self.save(update_fields=['score']) writes the score column only
CalculateScore(rows, row, inst) ==
    (rows \ {row}) \cup {[row EXCEPT !.score = Score(inst)]}

\* One of the two blocks of TrackInteractionView.post
TrackOne(rows, u, kind, id, type, t) ==
    IF id = NoValue THEN rows
    ELSE LET g == InterestGetOrCreate(rows, u, kind, id)
         IN CalculateScore(g.rows, g.inst, Bump(g.inst, type, t))

\* POST /track/interaction/
TrackInteraction(u, type, category_id, tag_id, t) ==
    /\ IF type = NoValue
       THEN /\ tlast' = [NoTrack EXCEPT !.op = "track", !.user = u, !.status = 400]
            /\ UNCHANGED interests
       ELSE /\ interests' = TrackOne(TrackOne(interests, u, "category", category_id, type, t),
                                     u, "tag", tag_id, type, t)
            /\ tlast' = [NoTrack EXCEPT !.op = "track", !.user = u, !.type = type,
                            !.category_id = category_id, !.tag_id = tag_id,
                            !.time_spent = t, !.status = 200]
    /\ UNCHANGED articles
    /\ UNCHANGED <<varsToggle, varsRace, varsComment, varsReview, varsPush>>

\* `from news.models import Article` in both feed helpers
ImportArticle == "Article" \in NewsModels

\* Articles in the table at most, and the query parameters of a request
MaxArticles == 3
MaxPageSize == 2
MaxPage == 4
PageSizes == 1..MaxPageSize
Pages == 1..MaxPage
\* published_at is kept as the age of the row in days (NoTime: NULL)
Ages == {0, 3, 8, 12}
ViewCounts == {0, 10}
ArticleColumns ==
    [status : {"published", "draft"}, published_at : Ages \cup {NoTime},
     view_count : ViewCounts]
\* timedelta(days=7)
WeekDays == 7
\* [:page_size * 2] and [:page_size * 3]
TrendingFactor == 2
PersonalizedFactor == 3
\* score is kept in tenths: view_count * 0.1
FeedScoreUnit == 10
\* An item of the trending feed carries no score
NoScore == -1

\* The tables of at most n rows, one row per id
ArticleTables(n) ==
    UNION {{{[id |-> i, status |-> f[i].status, published_at |-> f[i].published_at,
              view_count |-> f[i].view_count] : i \in I} : f \in [I -> ArticleColumns]}
           : I \in SUBSET (1..n)}

\* q[start:end]
Slice(q, start, end) ==
    LET to == IF end < Len(q) THEN end ELSE Len(q)
        n == IF to > start THEN to - start ELSE 0
    IN [i \in 1..n |-> q[start + i]]

\* The orders in which a query may return the rows S: <<a, b>> is in before
\* when the ORDER BY puts a strictly before b; rows it does not tell apart,
\* and the rows of a query without one, come in any order
Orderings(S, before) ==
    {q \in [1..Cardinality(S) -> S] :
        /\ \A i \in DOMAIN q, j \in DOMAIN q : q[i] = q[j] => i = j
        /\ \A i \in DOMAIN q, j \in DOMAIN q : i < j => <<q[j], q[i]>> \notin before}

\* order_by('-view_count', '-published_at')
TrendingBefore(S) ==
    {p \in S \X S :
        \/ p[1].view_count > p[2].view_count
        \/ p[1].view_count = p[2].view_count /\ p[1].published_at < p[2].published_at}

Unordered(S) == {}

\* filter(status='published', published_at__gte=week_ago)
TrendingArticles(rows) ==
    {a \in rows : /\ a.status = "published"
                  /\ a.published_at # NoTime
                  /\ a.published_at <= WeekDays}

\* filter(status='published')
PublishedArticles(rows) == {a \in rows : a.status = "published"}

\* _calculate_content_score, in tenths of a point
CalculateContentScore(content) ==
    LET recency == IF 100 * FeedScoreUnit > 10 * FeedScoreUnit * content.published_at
                   THEN 100 * FeedScoreUnit - 10 * FeedScoreUnit * content.published_at
                   ELSE 0
    IN (IF content.published_at # NoTime THEN recency ELSE 0) + content.view_count

\* scored_content.sort(key=score, reverse=True): a stable sort
RECURSIVE SortByScore(_)
SortByScore(q) ==
    IF Len(q) = 0 THEN <<>>
    ELSE LET x == q[Len(q)]
             t == SortByScore(SubSeq(q, 1, Len(q) - 1))
             k == Cardinality({i \in DOMAIN t : t[i].score >= x.score})
         IN SubSeq(t, 1, k) \o <<x>> \o SubSeq(t, k + 1, Len(t))

\* _get_trending_feed past its import, on the rows q as the query orders them
TrendingFeed(q, page_size, page) ==
    LET rows == Slice(q, 0, page_size * TrendingFactor)
        content == [i \in DOMAIN rows |->
                       [id |-> rows[i].id, view_count |-> rows[i].view_count,
                        score |-> NoScore]]
        start == (page - 1) * page_size
    IN [feed |-> Slice(content, start, start + page_size),
        total |-> Len(content), algorithm |-> "trending"]

\* _get_personalized_feed past its imports
PersonalizedFeed(q, page_size, page) ==
    LET rows == Slice(q, 0, page_size * PersonalizedFactor)
        scored_content ==
            SortByScore([i \in DOMAIN rows |->
                            [id |-> rows[i].id, view_count |-> rows[i].view_count,
                             score |-> CalculateContentScore(rows[i])]])
        start == (page - 1) * page_size
    IN [feed |-> Slice(scored_content, start, start + page_size),
        total |-> Len(scored_content), algorithm |-> "personalized"]

\* GET /feed/recommended/?page_size=&page= as user u (or Anonymous)
RecommendedFeed(u, page_size, page) ==
    LET helper == IF u # Anonymous THEN "_get_personalized_feed"
                  ELSE "_get_trending_feed"
        asked == [NoTrack EXCEPT !.op = "feed", !.user = u, !.helper = helper,
                     !.hadInterest = (\E r \in interests : r.user = u),
                     !.page_size = page_size, !.page = page]
    IN /\ IF ~ImportArticle
          THEN tlast' = [asked EXCEPT !.status = 500]
          ELSE \E q \in IF u # Anonymous
                        THEN Orderings(PublishedArticles(articles),
                                       Unordered(PublishedArticles(articles)))
                        ELSE Orderings(TrendingArticles(articles),
                                       TrendingBefore(TrendingArticles(articles))) :
                   LET f == IF u # Anonymous
                            THEN PersonalizedFeed(q, page_size, page)
                            ELSE TrendingFeed(q, page_size, page)
                   IN tlast' = [asked EXCEPT !.status = 200, !.feed = f.feed,
                                             !.total = f.total,
                                             !.algorithm = f.algorithm]
       /\ UNCHANGED <<interests, articles>>
       /\ UNCHANGED <<varsToggle, varsRace, varsComment, varsReview, varsPush>>

\* ---------------------------------------------------------------- push subscriptions
\* tags/views.py: PushSubscriptionView, UserSubscriptionViewSet;
\* tags/models.py: PushSubscription, UserSubscription.

\* PushSubscription rows ever created
MaxPush == 2

\* request.data 'endpoint'; p256dh, auth and device_name sent with it
EndpointInputs == {NoValue, "e1", "e2"}
KeyInputs ==
    {[p256dh |-> "k1", auth |-> "a1", device_name |-> NoValue],
     [p256dh |-> "k2", auth |-> "a2", device_name |-> "d1"]}
\* What a UserSubscription may point at: <<kind, id>>
SubscriptionTargets == {<<"category", "1">>, <<"tag", "1">>}
\* UserSubscription rows in the table at most
MaxFollows == 2

NoPush ==
    [op |-> "none", user |-> NoValue, endpoint |-> NoValue, p256dh |-> NoValue,
     status |-> 0]

PushDone(op, u, endpoint, p256dh, status) ==
    [op |-> op, user |-> u, endpoint |-> endpoint, p256dh |-> p256dh,
     status |-> status]

InitPush ==
    /\ push_subs = {}
    /\ nextPush = 1
    /\ user_subs = {}
    /\ plast = NoPush
    /\ preq = {}

EndpointRows(rows, endpoint) == {r \in rows : r.endpoint = endpoint}

\* PushSubscriptionSerializer(data=request.data).is_valid(): endpoint, p256dh
\* and auth are required; endpoint is unique=True on the model, so the
\* serializer field carries a UniqueValidator over all rows
PushSerializerValid(rows, endpoint) ==
    /\ endpoint # NoValue
    /\ EndpointRows(rows, endpoint) = {}

\* The `defaults` of update_or_create
PushDefaults(u, k) ==
    [user |-> u, p256dh |-> k.p256dh, auth |-> k.auth,
     device_name |-> IF k.device_name = NoValue THEN "" ELSE k.device_name,
     is_active |-> TRUE]

\* PushSubscription.objects.update_or_create(endpoint=endpoint, defaults=d)
\* (the time stamps of the rows, last_used among them, are not kept)
UpdateOrCreate(rows, pk, endpoint, d) ==
    IF EndpointRows(rows, endpoint) # {}
    THEN LET r == CHOOSE x \in EndpointRows(rows, endpoint) : TRUE
         IN [created |-> FALSE,
             rows |-> (rows \ {r}) \cup
                 {[r EXCEPT !.user = d.user, !.p256dh = d.p256dh, !.auth = d.auth,
                            !.device_name = d.device_name,
                            !.is_active = d.is_active]}]
    ELSE [created |-> TRUE,
          rows |-> rows \cup
              {[id |-> pk, endpoint |-> endpoint, user |-> d.user,
                p256dh |-> d.p256dh, auth |-> d.auth,
                device_name |-> d.device_name, is_active |-> d.is_active]}]

\* POST /push/subscribe/
PushSubscribe(u, endpoint, k) ==
    /\ IF ~PushSerializerValid(push_subs, endpoint)
       THEN /\ plast' = PushDone("subscribe", u, endpoint, k.p256dh, 400)
            /\ UNCHANGED <<push_subs, nextPush>>
       ELSE LET uc == UpdateOrCreate(push_subs, nextPush, endpoint, PushDefaults(u, k))
            IN /\ uc.created => nextPush <= MaxPush
               /\ push_subs' = uc.rows
               /\ nextPush' = IF uc.created THEN nextPush + 1 ELSE nextPush
               /\ plast' = PushDone("subscribe", u, endpoint, k.p256dh,
                                    IF uc.created THEN 201 ELSE 200)
    /\ UNCHANGED <<user_subs, ncall>>
    /\ UNCHANGED <<varsToggle, varsRace, varsComment, varsReview, varsTags, preq>>

\* Subscribe requests past validation at most
MaxPending == 2

\* POST /push/subscribe/ statement by statement, for requests that overlap:
\* serializer.is_valid(), with the 400 answer when it fails
PushValidate(u, endpoint, k) ==
    /\ IF ~PushSerializerValid(push_subs, endpoint)
       THEN /\ plast' = PushDone("subscribe", u, endpoint, k.p256dh, 400)
            /\ UNCHANGED preq
       ELSE /\ Cardinality(preq) < MaxPending
            /\ preq' = preq \cup {[user |-> u, endpoint |-> endpoint, k |-> k]}
            /\ UNCHANGED plast
    /\ UNCHANGED <<push_subs, nextPush, user_subs, ncall>>
    /\ UNCHANGED <<varsToggle, varsRace, varsComment, varsReview, varsTags>>

\* ... then update_or_create and the 201 / 200 answer
PushWrite(q) ==
    /\ q \in preq
    /\ LET uc == UpdateOrCreate(push_subs, nextPush, q.endpoint,
                                PushDefaults(q.user, q.k))
       IN /\ uc.created => nextPush <= MaxPush
          /\ push_subs' = uc.rows
          /\ nextPush' = IF uc.created THEN nextPush + 1 ELSE nextPush
          /\ plast' = PushDone("subscribe", q.user, q.endpoint, q.k.p256dh,
                               IF uc.created THEN 201 ELSE 200)
    /\ preq' = preq \ {q}
    /\ UNCHANGED <<user_subs, ncall>>
    /\ UNCHANGED <<varsToggle, varsRace, varsComment, varsReview, varsTags>>

\* DELETE /push/subscribe/
PushUnsubscribe(u, endpoint) ==
    /\ IF endpoint = NoValue
       THEN /\ plast' = PushDone("unsubscribe", u, endpoint, NoValue, 400)
            /\ UNCHANGED push_subs
       ELSE LET mine == {r \in push_subs : r.user = u /\ r.endpoint = endpoint}
            IN /\ push_subs' = push_subs \ mine
               /\ plast' = PushDone("unsubscribe", u, endpoint, NoValue,
                                    IF mine # {} THEN 200 ELSE 404)
    /\ UNCHANGED <<nextPush, user_subs, ncall>>
    /\ UNCHANGED <<varsToggle, varsRace, varsComment, varsReview, varsTags, preq>>

\* A key the request body does not carry
Absent == "absent"
\* Values of category / tag / subtag in a request body; NoValue is null
TargetInputs == {NoValue, "1"}

\* A UserSubscription row; NoValue is NULL
NewSubscription(u, c, g, s, push) ==
    [user |-> u, category |-> c, tag |-> g, subtag |-> s,
     push_notifications |-> push]

\* UserSubscription.objects.filter(user=u, <kind>=id)
UserSubRows(rows, u, kind, id) ==
    {r \in rows : r.user = u /\ r[kind] = id}

\* Meta.constraints: (user, category), (user, tag) and (user, subtag) are
\* each unique among the rows where the target is not NULL
UniqueConstraints(rows) ==
    \A a \in rows, b \in rows :
        (a # b /\ a.user = b.user) =>
            \A kind \in {"category", "tag", "subtag"} :
                a[kind] = NoValue \/ a[kind] # b[kind]

\* UserSubscriptionSerializer.validate: any(...) of the three targets
SubscriptionValidate(c, g, s) ==
    \E v \in {c, g, s} : v \notin {NoValue, Absent}

\* POST /subscriptions/: perform_create saves the row for the requester; an
\* invalid body is answered 400 and a row the constraints refuse is not
\* written
UserSubscriptionCreate(u, c, g, s, push) ==
    /\ LET row == NewSubscription(u, c, g, s, push)
       IN IF /\ SubscriptionValidate(c, g, s)
             /\ row \notin user_subs
             /\ UniqueConstraints(user_subs \cup {row})
          THEN /\ Cardinality(user_subs) < MaxFollows
               /\ user_subs' = user_subs \cup {row}
          ELSE UNCHANGED user_subs
    /\ UNCHANGED <<push_subs, nextPush, plast, ncall>>
    /\ UNCHANGED <<varsToggle, varsRace, varsComment, varsReview, varsTags, preq>>

\* PUT / PATCH /subscriptions/<pk>/ on a row of the requester: the keys of
\* the body replace the row's values, the others stay
UserSubscriptionUpdate(r, c, g, s, push) ==
    /\ r \in user_subs
    /\ LET row == [r EXCEPT !.category = IF c = Absent THEN @ ELSE c,
                            !.tag = IF g = Absent THEN @ ELSE g,
                            !.subtag = IF s = Absent THEN @ ELSE s,
                            !.push_notifications = push]
           others == user_subs \ {r}
       IN IF /\ SubscriptionValidate(c, g, s)
             /\ row \notin others
             /\ UniqueConstraints(others \cup {row})
          THEN user_subs' = others \cup {row}
          ELSE UNCHANGED user_subs
    /\ UNCHANGED <<push_subs, nextPush, plast, ncall>>
    /\ UNCHANGED <<varsToggle, varsRace, varsComment, varsReview, varsTags, preq>>

\* DELETE /subscriptions/<pk>/
UserUnsubscribe(r) ==
    /\ r \in user_subs
    /\ user_subs' = user_subs \ {r}
    /\ UNCHANGED <<push_subs, nextPush, plast, ncall>>
    /\ UNCHANGED <<varsToggle, varsRace, varsComment, varsReview, varsTags, preq>>

\* POST /categories/<slug>/subscribe/: get_or_create(user, category,
\* defaults={push_notifications: ...})
CategorySubscribe(u, id, push) ==
    /\ IF UserSubRows(user_subs, u, "category", id) # {}
       THEN UNCHANGED user_subs
       ELSE /\ Cardinality(user_subs) < MaxFollows
            /\ user_subs' = user_subs \cup
                   {NewSubscription(u, id, NoValue, NoValue, push)}
    /\ UNCHANGED <<push_subs, nextPush, plast, ncall>>
    /\ UNCHANGED <<varsToggle, varsRace, varsComment, varsReview, varsTags, preq>>

\* POST /categories/<slug>/unsubscribe/: filter(user, category).delete()
CategoryUnsubscribe(u, id) ==
    /\ user_subs' = user_subs \ UserSubRows(user_subs, u, "category", id)
    /\ UNCHANGED <<push_subs, nextPush, plast, ncall>>
    /\ UNCHANGED <<varsToggle, varsRace, varsComment, varsReview, varsTags, preq>>

\* POST /tags/<slug>/subscribe/
TagSubscribe(u, id, push) ==
    /\ IF UserSubRows(user_subs, u, "tag", id) # {}
       THEN UNCHANGED user_subs
       ELSE /\ Cardinality(user_subs) < MaxFollows
            /\ user_subs' = user_subs \cup
                   {NewSubscription(u, NoValue, id, NoValue, push)}
    /\ UNCHANGED <<push_subs, nextPush, plast, ncall>>
    /\ UNCHANGED <<varsToggle, varsRace, varsComment, varsReview, varsTags, preq>>

\* POST /tags/<slug>/unsubscribe/
TagUnsubscribe(u, id) ==
    /\ user_subs' = user_subs \ UserSubRows(user_subs, u, "tag", id)
    /\ UNCHANGED <<push_subs, nextPush, plast, ncall>>
    /\ UNCHANGED <<varsToggle, varsRace, varsComment, varsReview, varsTags, preq>>

\* ---------------------------------------------------------------- push delivery
\* tags/push_notifications.py: send_push_notification,
\* send_bulk_push_notification, notify_subscribers.

\* e.response of a WebPushException raised without a push-service response
NoResponse == 0
\* What webpush() does for one endpoint: it returns, or raises
\* WebPushException carrying the push service's response (its status code)
\* or none, or raises something else
Outcomes ==
    {[kind |-> "ok", response |-> NoResponse],
     [kind |-> "WebPushException", response |-> 404],
     [kind |-> "WebPushException", response |-> 410],
     [kind |-> "WebPushException", response |-> 500],
     [kind |-> "WebPushException", response |-> NoResponse],
     [kind |-> "Exception", response |-> NoResponse]}

\* Truth value of e.response: None is false, and a requests.Response is true
\* only when its status is below 400 (Response.__bool__ returns Response.ok)
ResponseBool(response) == response # NoResponse /\ response < 400

\* How the push service answered, for the properties: delivered, endpoint
\* permanently gone (404 / 410), or any other failure
OutcomeClass(o) ==
    IF o.kind = "ok" THEN "ok"
    ELSE IF o.kind = "WebPushException" /\ o.response \in {404, 410} THEN "gone"
    ELSE "other"

\* The condition of line 86
EndpointGone(o) == ResponseBool(o.response) /\ o.response \in {404, 410}

NoResult == [pending |-> TRUE]

NoCall ==
    [pc |-> "idle", mode |-> "none", user |-> NoValue, todo |-> {},
     sent_count |-> 0, failed_count |-> 0, failed_subscriptions |-> {},
     users |-> {}, total_users |-> 0, total_sent |-> 0, total_failed |-> 0,
     result |-> NoResult,
     \* what the call met, kept for the properties
     target |-> <<NoValue, NoValue>>,
     active0 |-> {}, outcomes |-> {}, snap |-> {}, audience |-> {},
     notified |-> {}, sum_sent |-> 0, sum_failed |-> 0]

InitNotify == ncall = NoCall

\* The filter on the user alone: every row of the user
UserSubscriptions(rows, u) == {r \in rows : r.user = u}

\* PushSubscription.objects.filter(user=user, is_active=True)
ActiveSubscriptions(rows, u) == {r \in rows : r.user = u /\ r.is_active}

\* The result send_push_notification(u) returned is handed to its caller:
\* the caller of notifyUser, or the loop of send_bulk_push_notification
Return(c, result) ==
    IF c.mode = "user"
    THEN [c EXCEPT !.pc = "done", !.result = result]
    ELSE [c EXCEPT !.pc = "bulk",
                   !.total_sent = @ + result.sent,
                   !.total_failed = @ + result.failed,
                   !.sum_sent = @ + result.sent,
                   !.sum_failed = @ + result.failed]

\* send_push_notification(u) up to the loop (lines 34-57): the exists()
\* query and the query of the loop, taken together
SendBegin(c, u) ==
    LET subs == ActiveSubscriptions(push_subs, u)
        c1 == [c EXCEPT !.user = u, !.notified = @ \cup {u},
                        !.active0 = {s.id : s \in subs}, !.outcomes = {},
                        !.snap = push_subs]
    IN IF subs = {}
       THEN Return(c1, [sent |-> 0, failed |-> 0])
       ELSE [c1 EXCEPT !.pc = "deliver", !.todo = subs, !.sent_count = 0,
                       !.failed_count = 0, !.failed_subscriptions = {}]

\* A caller runs send_push_notification(u)
NotifyUser(u) ==
    /\ ncall.pc = "idle"
    /\ ncall' = SendBegin([NoCall EXCEPT !.mode = "user"], u)
    /\ UNCHANGED <<push_subs, nextPush, user_subs, plast>>
    /\ UNCHANGED <<varsToggle, varsRace, varsComment, varsReview, varsTags, preq>>

\* instance.save(update_fields=fields) of the loaded row s: an UPDATE of
\* those columns by primary key, DatabaseError when it matches no row
SaveFields(rows, s, fields) ==
    IF \E r \in rows : r.id = s.id
    THEN [ok |-> TRUE,
          rows |-> {IF r.id = s.id
                    THEN [r EXCEPT
                            !.is_active = IF "is_active" \in fields
                                          THEN s.is_active ELSE @]
                    ELSE r : r \in rows}]
    ELSE [ok |-> FALSE, rows |-> rows]

\* One turn of the loop of lines 59-94, webpush() ending as o
Deliver(o) ==
    /\ ncall.pc = "deliver"
    /\ ncall.todo # {}
    /\ \E s \in ncall.todo :
         LET c == [ncall EXCEPT !.todo = @ \ {s},
                                !.outcomes = @ \cup {<<s.id, OutcomeClass(o)>>}]
         IN IF o.kind = "ok"
            THEN \* sent_count += 1, then save(update_fields=['last_used']);
                 \* a failing save lands in `except Exception`
                 LET sv == SaveFields(push_subs, s, {"last_used"})
                 IN /\ push_subs' = sv.rows
                    /\ ncall' = IF sv.ok
                                THEN [c EXCEPT !.sent_count = @ + 1]
                                ELSE [c EXCEPT !.sent_count = @ + 1,
                                               !.failed_count = @ + 1]
            ELSE IF o.kind = "WebPushException" /\ EndpointGone(o)
            THEN \* is_active = False, save(update_fields=['is_active']);
                 \* a failing save leaves the function as an exception
                 LET sv == SaveFields(push_subs, [s EXCEPT !.is_active = FALSE],
                                      {"is_active"})
                 IN /\ push_subs' = sv.rows
                    /\ ncall' = IF sv.ok
                                THEN [c EXCEPT !.failed_count = @ + 1,
                                               !.failed_subscriptions = @ \cup {s.id}]
                                ELSE [c EXCEPT !.failed_count = @ + 1,
                                               !.pc = "raised"]
            ELSE /\ ncall' = [c EXCEPT !.failed_count = @ + 1]
                 /\ UNCHANGED push_subs
    /\ UNCHANGED <<nextPush, user_subs, plast>>
    /\ UNCHANGED <<varsToggle, varsRace, varsComment, varsReview, varsTags, preq>>

\* The return of lines 96-100
SendReturn ==
    /\ ncall.pc = "deliver"
    /\ ncall.todo = {}
    /\ ncall' = Return(ncall, [sent |-> ncall.sent_count,
                               failed |-> ncall.failed_count,
                               failed_subscriptions |-> ncall.failed_subscriptions])
    /\ UNCHANGED <<push_subs, nextPush, user_subs, plast>>
    /\ UNCHANGED <<varsToggle, varsRace, varsComment, varsReview, varsTags, preq>>

\* UserSubscription.objects.filter(push_notifications=True, <kind>_id=id)
Audience(rows, t) ==
    {r.user : r \in {x \in rows : x.push_notifications /\ x[t[1]] = t[2]}}

\* notify_subscribers(kind, id, ...) up to its return; send_bulk_push_
\* notification starts with its totals at 0
NotifySubscribers(t) ==
    /\ ncall.pc = "idle"
    /\ LET users == Audience(user_subs, t)
       IN ncall' = IF users = {}
                   THEN [NoCall EXCEPT !.mode = "bulk", !.pc = "done", !.target = t,
                                       !.result = [sent |-> 0, failed |-> 0]]
                   ELSE [NoCall EXCEPT !.mode = "bulk", !.pc = "bulk", !.target = t,
                                       !.users = users, !.audience = users,
                                       !.total_users = Cardinality(users)]
    /\ UNCHANGED <<push_subs, nextPush, user_subs, plast>>
    /\ UNCHANGED <<varsToggle, varsRace, varsComment, varsReview, varsTags, preq>>

\* The loop of send_bulk_push_notification: the next user, or the return
BulkNext ==
    /\ ncall.pc = "bulk"
    /\ IF ncall.users = {}
       THEN ncall' = [ncall EXCEPT !.pc = "done",
                        !.result = [total_users |-> ncall.total_users,
                                    total_sent |-> ncall.total_sent,
                                    total_failed |-> ncall.total_failed]]
       ELSE \E u \in ncall.users :
              ncall' = SendBegin([ncall EXCEPT !.users = @ \ {u}], u)
    /\ UNCHANGED <<push_subs, nextPush, user_subs, plast>>
    /\ UNCHANGED <<varsToggle, varsRace, varsComment, varsReview, varsTags, preq>>

\* The caller has its result (or the exception)
NotifyEnd ==
    /\ ncall.pc \in {"done", "raised"}
    /\ ncall' = NoCall
    /\ UNCHANGED <<push_subs, nextPush, user_subs, plast>>
    /\ UNCHANGED <<varsToggle, varsRace, varsComment, varsReview, varsTags, preq>>

\* ---------------------------------------------------------------- specifications
Init == InitToggle /\ InitRace /\ InitComment /\ InitReview /\ InitTags
    /\ InitPush /\ InitNotify

\* Requests one at a time, each handler run as a whole, on every endpoint
Next ==
    \/ \E u \in Users, e \in Entity : ContentLike(u, e)
    \/ \E u \in Users, ct \in CtInputs, oid \in OidInputs : LikeToggle(u, ct, oid)
    \/ \E u \in Users, ct \in CtInputs, oid \in OidInputs : DislikeToggle(u, ct, oid)
    \/ \E u \in Users, ct \in CtInputs, oid \in OidInputs : BookmarkToggle(u, ct, oid)

Spec == Init /\ [][Next]_vars

\* Content like requests of two workers, interleaved statement by statement
NextRace ==
    \/ \E w \in Workers, u \in Users, e \in Entity : LikeGetObject(w, u, e)
    \/ \E w \in Workers : LikeGetOrCreate(w)
    \/ \E w \in Workers : LikeDelete(w)
    \/ \E w \in Workers : LikeSave(w)

SpecRace == Init /\ [][NextRace]_vars

\* Comment saves of two workers, interleaved statement by statement
NextComment ==
    \/ \E w \in Workers, t \in Targets, p \in {NoParent} \cup CIds :
           CommentNew(w, t, "a", p)
    \/ \E w \in Workers, k \in CIds, c \in Contents : CommentLoad(w, k, c)
    \/ \E w \in Workers : CommentSaveRow(w)
    \/ \E w \in Workers : CommentCountReplies(w)
    \/ \E w \in Workers : CommentWriteCount(w)
    \/ Tick

SpecComment == Init /\ [][NextComment]_vars

\* Comment saves one at a time
NextCommentSerial ==
    \/ \E t \in Targets, p \in {NoParent} \cup CIds : CommentNew("w1", t, "a", p)
    \/ \E k \in CIds, c \in Contents : CommentLoad("w1", k, c)
    \/ CommentSaveRow("w1")
    \/ CommentCountReplies("w1")
    \/ CommentWriteCount("w1")
    \/ Tick

SpecCommentSerial == Init /\ [][NextCommentSerial]_vars

\* Comment saves and deletions one at a time
NextCommentDelete ==
    \/ NextCommentSerial
    \/ ~CInFlight("w1") /\ \E k \in CIds : CommentDelete(k)

SpecCommentDelete == Init /\ [][NextCommentDelete]_vars

\* Review requests one at a time
NextReview ==
    \/ \E u \in Reviewers, ct \in {"news", "event", "bogus"}, b \in ReviewInputs :
           ReviewCreate(u, ct, "1", b.rating, b.title, b.comment)
    \/ \E r \in reviews, ct \in ContentTypes, b \in ReviewInputs :
           ReviewUpdate(r, ct, "1", b.rating, b.title, b.comment)
    \/ \E r \in reviews : ReviewDestroy(r)
    \/ \E r \in reviews, approved \in BOOLEAN : ReviewModerate(r, approved)

SpecReview == Init /\ [][NextReview]_vars

\* Track and feed requests one at a time
NextTags ==
    \/ \E u \in Users, type \in TypeInputs, c \in IdInputs, g \in IdInputs,
          t \in TimeInputs : TrackInteraction(u, type, c, g, t)
    \/ \E u \in Users \cup {Anonymous} : RecommendedFeed(u, MaxPageSize, 1)

SpecTags == Init /\ [][NextTags]_vars

\* Feed requests on a table of articles
InitFeed ==
    /\ InitToggle /\ InitRace /\ InitComment /\ InitReview /\ InitPush /\ InitNotify
    /\ interests = {}
    /\ tlast = NoTrack
    /\ articles \in ArticleTables(MaxArticles)

NextFeed ==
    \E u \in {"u1", Anonymous}, page_size \in PageSizes, page \in Pages :
        RecommendedFeed(u, page_size, page)

SpecFeed == InitFeed /\ [][NextFeed]_vars

\* send_push_notification calls with the push requests of clients in between
\* their statements
NextPush ==
    \/ \E u \in Users, e \in EndpointInputs, k \in KeyInputs : PushSubscribe(u, e, k)
    \/ \E u \in Users, e \in EndpointInputs : PushUnsubscribe(u, e)
    \/ \E u \in Users : NotifyUser(u)
    \/ \E o \in Outcomes : Deliver(o)
    \/ SendReturn
    \/ NotifyEnd

SpecPush == Init /\ [][NextPush]_vars

\* The subscription requests of several clients, the subscribe requests
\* overlapping
NextPushRace ==
    \/ \E u \in Users, e \in EndpointInputs, k \in KeyInputs : PushValidate(u, e, k)
    \/ \E q \in preq : PushWrite(q)
    \/ \E u \in Users, e \in EndpointInputs : PushUnsubscribe(u, e)

SpecPushRace == Init /\ [][NextPushRace]_vars

\* A PushSubscription row as the table may hold it, is_active being a
\* column of its own (tags/admin.py edits it)
StoredRow(id, endpoint, u, active) ==
    [id |-> id, endpoint |-> endpoint, user |-> u, p256dh |-> "k1", auth |-> "a1",
     device_name |-> "", is_active |-> active]

\* Tables of at most one row per endpoint, the keys 1, 2 given in order
StoredTables ==
    {{}} \cup
    {{StoredRow(1, e, u, a)} : e \in {"e1", "e2"}, u \in Users, a \in BOOLEAN} \cup
    {{StoredRow(1, "e1", "u1", a1), StoredRow(2, "e2", u2, a2)} :
        a1 \in BOOLEAN, u2 \in Users, a2 \in BOOLEAN}

\* Notification calls and push requests, one at a time, on a table with
\* rows, inactive ones among them, and with followers of category 1.  (From
\* an empty table no row becomes inactive: the branch of Deliver for a gone
\* endpoint is never taken, see ResponseBool.)
InitStored ==
    /\ InitToggle /\ InitRace /\ InitComment /\ InitReview /\ InitTags /\ InitNotify
    /\ push_subs \in StoredTables
    /\ nextPush = Cardinality(push_subs) + 1
    /\ user_subs = {NewSubscription(u, "1", NoValue, NoValue, TRUE) : u \in Users}
    /\ plast = NoPush
    /\ preq = {}

NextStored ==
    \/ ncall.pc = "idle" /\ \E u \in Users, e \in EndpointInputs, k \in KeyInputs :
                                PushSubscribe(u, e, k)
    \/ ncall.pc = "idle" /\ \E u \in Users, e \in EndpointInputs : PushUnsubscribe(u, e)
    \/ \E u \in Users : NotifyUser(u)
    \/ NotifySubscribers(<<"category", "1">>)
    \/ BulkNext
    \/ \E o \in Outcomes : Deliver(o)
    \/ SendReturn
    \/ NotifyEnd

SpecStored == InitStored /\ [][NextStored]_vars

\* Notification calls and subscription requests one at a time
NextPushSerial ==
    \/ ncall.pc = "idle" /\ \E u \in Users, e \in EndpointInputs, k \in KeyInputs :
                                PushSubscribe(u, e, k)
    \/ ncall.pc = "idle" /\ \E u \in Users, e \in EndpointInputs : PushUnsubscribe(u, e)
    \/ ncall.pc = "idle" /\ \E u \in Users, push \in BOOLEAN :
                                CategorySubscribe(u, "1", push)
    \/ ncall.pc = "idle" /\ \E u \in Users, push \in BOOLEAN :
                                TagSubscribe(u, "1", push)
    \/ ncall.pc = "idle" /\ \E r \in user_subs, push \in BOOLEAN :
                                UserSubscriptionUpdate(r, r.category, r.tag, r.subtag, push)
    \/ ncall.pc = "idle" /\ \E r \in user_subs : UserUnsubscribe(r)
    \/ \E u \in Users : NotifyUser(u)
    \/ \E t \in SubscriptionTargets : NotifySubscribers(t)
    \/ BulkNext
    \/ \E o \in Outcomes : Deliver(o)
    \/ SendReturn
    \/ NotifyEnd

SpecPushSerial == Init /\ [][NextPushSerial]_vars

\* The subscription endpoints: the subscribe and unsubscribe actions of
\* categories and tags and the UserSubscription API
NextFollow ==
    \/ \E u \in Users, push \in BOOLEAN : CategorySubscribe(u, "1", push)
    \/ \E u \in Users : CategoryUnsubscribe(u, "1")
    \/ \E u \in Users, push \in BOOLEAN : TagSubscribe(u, "1", push)
    \/ \E u \in Users : TagUnsubscribe(u, "1")
    \/ \E u \in Users, c \in TargetInputs, g \in TargetInputs, s \in TargetInputs,
          push \in BOOLEAN : UserSubscriptionCreate(u, c, g, s, push)
    \/ \E r \in user_subs, c \in TargetInputs \cup {Absent},
          g \in TargetInputs \cup {Absent}, s \in TargetInputs \cup {Absent},
          push \in BOOLEAN : UserSubscriptionUpdate(r, c, g, s, push)
    \/ \E r \in user_subs : UserUnsubscribe(r)

SpecFollow == Init /\ [][NextFollow]_vars

\* ---------------------------------------------------------------- claims
SameTarget(a, b) == a.user = b.user /\ a.ct = b.ct /\ a.oid = b.oid

\* Endpoints that create and delete Like rows
LikeEps == {"content_like", "like"}

\* The (content_type, object_id) pair names an entity that exists
Resolves(ct, oid) == <<ct, oid>> \in Entity

LikesOf(e) == {u \in Users : Key(u, e[1], e[2]) \in likes}

\* C1: once a request has completed there is never both a Like row and a
\* Dislike row for the same (user, content_type, object_id).
C1_NeverLikeAndDislike ==
    \A k \in likes : k \notin dislikes

\* C2: a user toggling Like twice in a row on a target they had not liked:
\* the first toggle answers liked=true, the second liked=false, no Like row is
\* left and likes_count is back at its value before the first toggle.
C2_LikeTwiceStep ==
    ( /\ last.ep \in LikeEps /\ last.status # 400 /\ ~last.hadLike
      /\ last'.ep \in LikeEps /\ SameTarget(last, last') )
    => /\ last.applied
       /\ ~last'.applied
       /\ Key(last.user, last.ct, last.oid) \notin likes'
       /\ Resolves(last.ct, last.oid)
            => likes_count'[<<last.ct, last.oid>>] = last.before

C2_LikeTwiceRoundTrip == [][C2_LikeTwiceStep]_vars

\* C3: from neither relation, a like that created the Like row followed at
\* once by a Dislike toggle of the same user on the same target leaves the
\* Dislike row alone: no Like row, and likes_count back at its value before
\* the like.
C3_LikeThenDislikeStep ==
    ( /\ last.ep \in LikeEps /\ last.applied /\ ~last.hadLike /\ ~last.hadDislike
      /\ last'.ep = "dislike" /\ SameTarget(last, last') )
    => /\ Key(last.user, last.ct, last.oid) \in dislikes'
       /\ Key(last.user, last.ct, last.oid) \notin likes'
       /\ Resolves(last.ct, last.oid)
            => likes_count'[<<last.ct, last.oid>>] = last.before

C3_LikeThenDislike == [][C3_LikeThenDislikeStep]_vars

\* C4: after any sequence of requests through any mix of the endpoints, each
\* entity's likes_count equals the number of Like rows that reference it.
C4_CountMatchesRows ==
    \A e \in Entity : likes_count[e] = Cardinality(LikesOf(e))

\* C5: a content like that finds the user's Like row deletes it and writes
\* the counter decremented and floored at 0 (the request completes), and
\* likes_count is negative in no state.
C5_FlooredDecrement ==
    /\ \A e \in Entity : likes_count[e] >= 0
    /\ (last.ep = "content_like" /\ last.hadLike)
         => /\ last.status = 200
            /\ likes_count[<<last.ct, last.oid>>] = Max(0, last.before - 1)

\* C7: a like, dislike or bookmark toggle whose target does not resolve is
\* answered with an error and changes no row and no counter.
C7_UnresolvedStep ==
    ( /\ last'.ep \in {"like", "dislike", "bookmark"}
      /\ ~Resolves(last'.ct, last'.oid) )
    => /\ last'.status = 400
       /\ UNCHANGED <<likes, dislikes, bookmarks, likes_count>>

C7_UnresolvedRejected == [][C7_UnresolvedStep]_vars

\* C6: two different users toggling Like on the same entity at the same time,
\* each from 'not liked': whatever the interleaving, once both requests have
\* answered, likes_count is exactly 2 above its value when they began.
C6_Pair(a, b) ==
    /\ a # b
    /\ req[a].pc = "done" /\ req[b].pc = "done"
    /\ epoch.n = 2
    /\ req[a].user # req[b].user
    /\ req[a].ent = req[b].ent
    /\ req[a].created /\ req[b].created

C6_NoLostIncrement ==
    \A a, b \in Workers :
        C6_Pair(a, b) => likes_count[req[a].ent] = epoch.base + 2

C6_Witness ==
    \E a, b \in Workers :
        C6_Pair(a, b) /\ epoch.base = 0 /\ likes_count[req[a].ent] = 2

\* C8: replies created in any order, with edits of the parent and of the
\* replies and with overlapping saves: once no save is in flight, every
\* comment's stored reply_count is the number of its replies.
C8_ReplyCountExact ==
    (\A w \in Workers : ~CInFlight(w))
        => \A p \in stored : comments[p].reply_count = Cardinality(Replies(p))

\* C9: a save that changes a comment's stored content stores the comment with
\* is_edited=true and edited_at equal to the time of that save.
C9_EditMarkedStep ==
    \A c \in stored :
        comments'[c].content # comments[c].content
            => comments'[c].is_edited /\ comments'[c].edited_at = now

C9_EditMarked == [][C9_EditMarkedStep]_vars

C9_Witness ==
    \E c \in stored :
        /\ comments[c].content = "b"
        /\ comments[c].is_edited
        /\ comments[c].edited_at = 1

\* C10: a comment whose parent belongs to another target is rejected: no
\* stored comment has a parent with a different (content_type, object_id).
C10_NoCrossTargetReply ==
    \A c \in stored :
        comments[c].parent # NoParent
            => comments[comments[c].parent].target = comments[c].target

\* ---- reviews
C11_AtMostOne ==
    \A r1 \in reviews, r2 \in reviews :
        (r1.user = r2.user /\ r1.ct = r2.ct /\ r1.oid = r2.oid) => r1 = r2

C11_Step ==
    (rlast'.op = "create" /\ ReviewsOf(rlast'.user, rlast'.ct, rlast'.oid) # {})
        => (rlast'.status # 201 /\ reviews' = reviews)

\* C11: no two Review rows share (user, content_type, object_id), and a
\* create for a triple that already has a review is refused and leaves every
\* stored review (rating, title, comment) as it was.
C11_OneReviewPerPair == []C11_AtMostOne /\ [][C11_Step]_vars

\* A second create for a reviewed triple was answered
C11_Witness ==
    /\ rlast.op = "create"
    /\ rlast.status = 500
    /\ ReviewsOf(rlast.user, rlast.ct, rlast.oid) # {}

C12_Approved(ct, oid) ==
    {r \in reviews : r.ct = ct /\ r.oid = oid /\ r.is_approved = TRUE}

\* C12 as stated: reviews_count is the number of approved reviews of the
\* target and average_rating is exactly their arithmetic mean (0 over none).
C12_ExactMean ==
    \A ct \in ContentTypes :
        LET st == InteractionStats(Anonymous, ct, "1")
            A == C12_Approved(ct, "1")
        IN /\ st.reviews_count = Cardinality(A)
           /\ st.average_rating * Cardinality(A) = 100 * SumRating(A)

\* C12 as amended: reviews_count is the number of approved reviews of the
\* target and average_rating is their arithmetic mean rounded to two
\* decimals (the hundredth nearest to it), exactly 0 over no approved review;
\* unapproved reviews do not contribute.
C12_RoundedMean ==
    \A ct \in ContentTypes :
        LET st == InteractionStats(Anonymous, ct, "1")
            A == C12_Approved(ct, "1")
            n == Cardinality(A)
            d == st.average_rating * n - 100 * SumRating(A)
        IN /\ st.reviews_count = n
           /\ (n = 0) => (st.average_rating = 0)
           /\ 2 * d <= n
           /\ 2 * d >= 0 - n

\* A target with an approved and an unapproved review, after a removal
C12_Witness ==
    /\ rlast.op \in {"destroy", "moderate"}
    /\ \E r1 \in reviews, r2 \in reviews :
          /\ r1.ct = r2.ct /\ r1.oid = r2.oid
          /\ r1.is_approved /\ ~r2.is_approved
          /\ InteractionStats(Anonymous, r1.ct, r1.oid).reviews_count = 1
          /\ InteractionStats(Anonymous, r1.ct, r1.oid).average_rating = 100 * r1.rating

\* ---- interests and feed
C13_Counter(r, type) ==
    IF type = "view" THEN r.view_count
    ELSE IF type = "like" THEN r.like_count ELSE r.share_count

\* The stored row of (user, kind, id) before and after one call
C13_Counted(u, kind, id, type, t) ==
    LET old == IF InterestRows(interests, u, kind, id) = {}
               THEN NewInterest(u, kind, id)
               ELSE CHOOSE r \in InterestRows(interests, u, kind, id) : TRUE
    IN \E r \in InterestRows(interests', u, kind, id) :
          /\ C13_Counter(r, type) = C13_Counter(old, type) + 1
          /\ r.time_spent = old.time_spent + t

C13_Step ==
    (tlast'.op = "track" /\ tlast'.status = 200
        /\ tlast'.type \in {"view", "like", "share"})
    => /\ (tlast'.category_id # NoValue) =>
               C13_Counted(tlast'.user, "category", tlast'.category_id,
                           tlast'.type, tlast'.time_spent)
       /\ (tlast'.tag_id # NoValue) =>
               C13_Counted(tlast'.user, "tag", tlast'.tag_id,
                           tlast'.type, tlast'.time_spent)

\* C13: every view / like / share call raises the stored matching counter of
\* the (user, category) or (user, tag) row by exactly 1 and the stored
\* time_spent by the seconds supplied.
C13_EveryCallCounted == [][C13_Step]_vars

\* C14: every stored UserInterest row has score = view_count*1 +
\* like_count*5 + share_count*10 + (time_spent/60)*2 of its own stored
\* counters (both sides in thirtieths).
C14_ScoreFromStoredCounters ==
    \A r \in interests :
        r.score = 30 * r.view_count + 150 * r.like_count
                    + 300 * r.share_count + r.time_spent

\* C15: the feed answers "personalized" exactly for an authenticated user
\* with at least one UserInterest row, and "trending" for an anonymous
\* request and for an authenticated user without one.
C15_FeedAlgorithm ==
    (tlast.op = "feed") =>
        tlast.algorithm = IF tlast.user # Anonymous /\ tlast.hadInterest
                          THEN "personalized" ELSE "trending"

\* ---- push notifications
C16_Delivered == {p \in ncall.outcomes : p[2] = "ok"}

\* C16: a notifyUser call ends with a result, never an exception; every
\* subscription active at its start was attempted once, sent is the number
\* of deliveries that succeeded and sent + failed the number of those
\* subscriptions.
C16_EveryEndpointCounted ==
    (ncall.mode = "user" /\ ncall.pc \in {"done", "raised"}) =>
        /\ ncall.pc = "done"
        /\ {p[1] : p \in ncall.outcomes} = ncall.active0
        /\ Cardinality(ncall.outcomes) = Cardinality(ncall.active0)
        /\ ncall.result.sent = Cardinality(C16_Delivered)
        /\ ncall.result.sent + ncall.result.failed = Cardinality(ncall.active0)

C17_Step ==
    (ncall.pc = "deliver" /\ ncall'.outcomes # ncall.outcomes) =>
        \A p \in ncall'.outcomes \ ncall.outcomes :
            /\ (p[2] = "gone") =>
                   \E r \in push_subs' : r.id = p[1] /\ ~r.is_active
            /\ (p[2] = "other") =>
                   /\ ncall'.failed_count = ncall.failed_count + 1
                   /\ \E r \in push_subs' : r.id = p[1] /\ r.is_active

\* C17: a delivery refused with 404 or 410 leaves the subscription stored
\* with is_active false; any other failed delivery is counted as failed and
\* leaves the subscription active.
C17_FailureClassified == [][C17_Step]_vars

C18_Gone == {p[1] : p \in {q \in ncall.outcomes : q[2] = "gone"}}

\* C18: at the end of a notifyUser call the subscriptions reported gone are
\* inactive, every other row is as it was when the call started, sent counts
\* the deliveries that succeeded and failed the ones that did not.
C18_OnlyGoneChanged ==
    (ncall.mode = "user" /\ ncall.pc = "done") =>
        /\ \A r \in push_subs : (r.id \in C18_Gone) => ~r.is_active
        /\ {r \in push_subs : r.id \notin C18_Gone}
               = {r \in ncall.snap : r.id \notin C18_Gone}
        /\ ncall.result.sent = Cardinality(C16_Delivered)
        /\ ncall.result.failed = Cardinality(ncall.outcomes \ C16_Delivered)

\* C19: notifyAudience calls notifyUser for exactly the users subscribed to
\* the target with push_notifications=true and returns {sent, failed}, the
\* sums of the per-user results (also for an empty audience).
C19_AudienceTotals ==
    (ncall.mode = "bulk" /\ ncall.pc = "done") =>
        /\ ncall.notified =
               {r.user : r \in {x \in user_subs :
                                    /\ x.push_notifications = TRUE
                                    /\ x[ncall.target[1]] = ncall.target[2]}}
        /\ "sent" \in DOMAIN ncall.result
        /\ "failed" \in DOMAIN ncall.result
        /\ ncall.result.sent = ncall.sum_sent
        /\ ncall.result.failed = ncall.sum_failed

C20_AtMostOne ==
    \A r1 \in push_subs, r2 \in push_subs : (r1.endpoint = r2.endpoint) => r1 = r2

C20_Step ==
    (plast'.op = "subscribe" /\ EndpointRows(push_subs, plast'.endpoint) # {}) =>
        /\ plast'.status \in {200, 201}
        /\ Cardinality(push_subs') = Cardinality(push_subs)
        /\ \E r \in push_subs' :
              /\ r.endpoint = plast'.endpoint
              /\ r.p256dh = plast'.p256dh
              /\ r.is_active

\* C20: no two PushSubscription rows share an endpoint, and subscribing an
\* endpoint that has a row succeeds, leaving that one row with the keys
\* sent and is_active true.
C20_SubscribeUpserts == []C20_AtMostOne /\ [][C20_Step]_vars

\* ---- subscriptions
C21_Step ==
    (plast'.op = "unsubscribe" /\ plast'.endpoint # NoValue) =>
        /\ plast'.status = 200
        /\ {r \in push_subs' : r.user = plast'.user /\ r.endpoint = plast'.endpoint}
               = {}
        /\ ({r \in push_subs : r.user = plast'.user /\ r.endpoint = plast'.endpoint}
                = {} => push_subs' = push_subs)

\* C21: unsubscribing an endpoint answers success whether or not the user
\* has a row for it, and leaves the table without such a row: a repeated
\* unsubscribe changes nothing and is not an error.
C21_UnsubscribeIdempotent == [][C21_Step]_vars

C22_ExactlyOne ==
    \A r \in user_subs :
        Cardinality({kind \in {"category", "tag", "subtag"} : r[kind] # NoValue}) = 1

C22_Unique ==
    \A a \in user_subs, b \in user_subs :
        (/\ a.user = b.user
         /\ \E kind \in {"category", "tag", "subtag"} :
                a[kind] # NoValue /\ a[kind] = b[kind]) => a = b

C22_Step ==
    \A u \in Users, push \in BOOLEAN :
        /\ (UserSubRows(user_subs, u, "category", "1") # {}
               /\ (CategorySubscribe(u, "1", push)
                   \/ UserSubscriptionCreate(u, "1", NoValue, NoValue, push)))
             => user_subs' = user_subs
        /\ (UserSubRows(user_subs, u, "tag", "1") # {}
               /\ (TagSubscribe(u, "1", push)
                   \/ UserSubscriptionCreate(u, NoValue, "1", NoValue, push)))
             => user_subs' = user_subs

\* C22: every UserSubscription row has exactly one of category, tag, subtag
\* set, no user has two rows for one target, and subscribing to a target
\* the user already follows leaves the rows and their preferences as they
\* were.
C22_OneTargetPerRow == []C22_ExactlyOne /\ []C22_Unique /\ [][C22_Step]_vars

\* ---- comment life
C23_AtRest ==
    ~CInFlight("w1") =>
        \A p \in stored :
            comments[p].reply_count
                = Cardinality({c \in stored : comments[c].parent = p})

C23_Step ==
    \A k \in stored \ stored' :
        LET p == comments[k].parent
        IN p \in stored' =>
               comments'[p].reply_count
                   = Cardinality({c \in stored' : comments'[c].parent = p})

\* C23: after creations, edits and deletions every stored comment's
\* reply_count is the number of stored comments whose parent it is, and the
\* deletion of a reply leaves its parent with the count of the replies
\* that remain.
C23_ReplyCountAfterDelete == []C23_AtRest /\ [][C23_Step]_vars

\* ---- feed pages
FeedIds(q) == [i \in DOMAIN q |-> q[i].id]

C24_Recent ==
    {a \in articles : /\ a.status = "published"
                      /\ a.published_at # NoTime
                      /\ a.published_at <= 7}

C24_Before ==
    {p \in C24_Recent \X C24_Recent :
        \/ p[1].view_count > p[2].view_count
        \/ p[1].view_count = p[2].view_count /\ p[1].published_at < p[2].published_at}

\* C24: the trending feed's page p of size s is the slice (p-1)*s .. p*s-1
\* of the articles published in the last 7 days, ordered by view count
\* descending and then by published_at descending.
C24_TrendingPage ==
    (tlast.op = "feed" /\ tlast.user = Anonymous) =>
        /\ tlast.status = 200
        /\ \E q \in Orderings(C24_Recent, C24_Before) :
               FeedIds(tlast.feed)
                   = FeedIds(Slice(q, (tlast.page - 1) * tlast.page_size,
                                   tlast.page * tlast.page_size))

C25_Published == {a \in articles : a.status = "published"}

\* max(0, 100 - (ageHours/24)*10) + viewCount*0.1, in tenths
C25_Score(a) ==
    (IF a.published_at * 100 < 1000 THEN 1000 - a.published_at * 100 ELSE 0)
        + a.view_count

C25_Before ==
    {p \in C25_Published \X C25_Published : C25_Score(p[1]) > C25_Score(p[2])}

\* C25: in the personalized feed every item's score is the recency term
\* (never negative) plus a tenth of the view count, the items of a page are
\* in non-increasing score order, and page p is the slice
\* (p-1)*pageSize .. p*pageSize-1 of the candidates sorted by score.
C25_PersonalizedPage ==
    (tlast.op = "feed" /\ tlast.user # Anonymous) =>
        /\ tlast.status = 200
        /\ \A i \in DOMAIN tlast.feed :
               \E a \in C25_Published :
                   /\ a.id = tlast.feed[i].id
                   /\ a.published_at # NoTime => tlast.feed[i].score = C25_Score(a)
        /\ \A i \in DOMAIN tlast.feed, j \in DOMAIN tlast.feed :
               i < j => tlast.feed[i].score >= tlast.feed[j].score
        /\ \E q \in Orderings({a \in C25_Published : a.published_at # NoTime},
                              C25_Before) :
               ({a \in C25_Published : a.published_at = NoTime} = {}) =>
                   FeedIds(tlast.feed)
                       = FeedIds(Slice(q, (tlast.page - 1) * tlast.page_size,
                                       tlast.page * tlast.page_size))

C26_Matching ==
    IF tlast.user = Anonymous THEN C24_Recent ELSE C25_Published

C26_Before == IF tlast.user = Anonymous THEN C24_Before ELSE {}

\* The pages 1, 2, 3, ... of one feed, one after the other
RECURSIVE C26_Pages(_, _, _)
C26_Pages(q, page_size, page) ==
    IF page = 0 THEN <<>>
    ELSE C26_Pages(q, page_size, page - 1)
             \o (IF tlast.user = Anonymous
                 THEN TrendingFeed(q, page_size, page).feed
                 ELSE PersonalizedFeed(q, page_size, page).feed)

\* C26: the pages of a feed, taken one after the other for a fixed page
\* size and table, hold every article matching the feed's filter exactly
\* once, and the total a page reports is the number of matching articles.
C26_PagesComplete ==
    (tlast.op = "feed") =>
        /\ tlast.status = 200
        /\ tlast.total = Cardinality(C26_Matching)
        /\ \A q \in Orderings(C26_Matching, C26_Before) :
               LET all == C26_Pages(q, tlast.page_size, MaxArticles)
               IN /\ {all[i].id : i \in DOMAIN all} = {a.id : a \in C26_Matching}
                  /\ Len(all) = Cardinality(C26_Matching)

\* ---- one user's overlapping likes
C27_Pair(a, b) ==
    /\ a # b
    /\ req[a].pc = "done" /\ req[b].pc = "done"
    /\ epoch.n = 2
    /\ req[a].user = req[b].user
    /\ req[a].ent = req[b].ent

C27_Rows(liked) == IF liked THEN 1 ELSE 0

\* C27: two like requests of one user on one entity at the same time: once
\* both have answered, likes_count has changed since they began by as much
\* as the number of the user's Like rows for the entity has.
C27_CounterFollowsRows ==
    \A a, b \in Workers :
        C27_Pair(a, b) =>
            likes_count[req[a].ent] - epoch.base
                = C27_Rows(Key(req[a].user, req[a].ent[1], req[a].ent[2]) \in likes)
                      - C27_Rows(epoch.liked)

\* ---- edit marks
C28_Step ==
    \A c \in stored' :
        (/\ c \in stored => comments'[c].content = comments[c].content
         /\ c \in stored => ~comments[c].is_edited)
            => /\ ~comments'[c].is_edited
               /\ comments'[c].edited_at = NoTime

\* C28: a comment is stored with is_edited false and edited_at null when it
\* is created, and a step that leaves the content of an unedited comment as
\* it was (a re-save with the same content, the re-save of a parent for its
\* reply count) leaves it unedited.
C28_UneditedUntilChanged == [][C28_Step]_vars

\* ---- ownership of an endpoint
C29_Own == \A s \in ncall.todo : s.user = ncall.user

C29_Step ==
    \A r \in push_subs :
        \/ \E r2 \in push_subs' :
              /\ r2.id = r.id /\ r2.endpoint = r.endpoint /\ r2.user = r.user
              /\ r2.p256dh = r.p256dh /\ r2.auth = r.auth
        \/ /\ plast'.op = "unsubscribe"
           /\ plast'.user = r.user
           /\ plast'.endpoint = r.endpoint

\* C29: the row of an endpoint stays with the user who registered it, with
\* that user's keys, until that user unsubscribes it; a notification for a
\* user is attempted on that user's rows only.
C29_OwnerKeepsEndpoint == []C29_Own /\ [][C29_Step]_vars

\* ---- active and inactive subscriptions
C30_Attempted(c) == {p[1] : p \in c.outcomes}

C30_Attempt ==
    (ncall'.pc # "idle") =>
        \A k \in C30_Attempted(ncall') \ C30_Attempted(ncall) :
            \A r \in push_subs : r.id = k => r.is_active

C30_Up ==
    \A r \in push_subs, r2 \in push_subs' :
        (r2.endpoint = r.endpoint /\ ~r.is_active /\ r2.is_active) =>
            /\ plast'.op = "subscribe"
            /\ plast'.endpoint = r.endpoint
            /\ plast'.status \in {200, 201}

C30_Down ==
    \A r \in push_subs, r2 \in push_subs' :
        (r2.endpoint = r.endpoint /\ r.is_active /\ ~r2.is_active) =>
            /\ ncall.pc = "deliver"
            /\ r.id \in C30_Attempted(ncall') \ C30_Attempted(ncall)

====
